---- MODULE Spec2Model ----
(***************************************************************************)
(* Odour alert backend: the sustained-alert state machine                  *)
(* (Backend/services/esp32/alert_service.py), the threshold predictor      *)
(* (Backend/services/esp32/predictor.py), the notification service, the    *)
(* evaluation service (Backend/services/esp32/crud.py) with its two POST   *)
(* handlers (Backend/web/api/esp32/views.py), and determine_department     *)
(* (Backend/services/servicenow/service.py).                               *)
(*                                                                         *)
(* Numbers.  Python floats are modelled in fixed point: a concentration    *)
(* (ppm) or a score (0-100) x is the integer x * ONE, so 0.0001 is the     *)
(* smallest step.  With the two reference ceilings (5.0 and 0.1 ppm) and   *)
(* the multipliers 0.5, 1.5 and 2.0 every product and quotient of the      *)
(* code is exact in this unit; round(x, 2) is modelled as Python defines   *)
(* it, to the nearest hundredth with ties to the even hundredth.           *)
(* Timestamps are whole seconds, and a timedelta's total_seconds() is the  *)
(* difference of two timestamps.                                           *)
(***************************************************************************)
EXTENDS Integers, Sequences, FiniteSets, TLC

VARIABLES
    alert_state,      \* AlertService.alert_state: the one AlertState record
    sustain_seconds,  \* AlertService.sustain_seconds
    call,             \* the last check_sustained_alert call: arguments, state before, locals, return value
    hist,             \* history of the current episode: alerts returned, sustain reached, alerts ever
    notification,     \* NotificationService: which clients exist
    settings,         \* Backend.settings: which addresses are configured
    sms_call,         \* the last send_sms call: return value, exception, transport attempt
    email_call,       \* the last send_email call
    normalize_call,   \* the last normalize call
    normalize_prev,   \* the normalize call before it
    thresholds_call,  \* the last predict_thresholds call: the model's prediction and the ThresholdSet
    score_call,       \* the last compute_fused_score call
    predictor,        \* the ThresholdPredictor instance the constructor gave, None if it raised
    department_call,  \* the last determine_department call
    now,              \* the last value datetime.now() returned
    readings,         \* the sensor_readings table: the row with id i is readings[i]
    pending,          \* POST /readings requests past the insert, before the evaluation: their reading ids
    eval,             \* the last ESP32Service.evaluate_alert call
    response,         \* the last HTTP response
    singleton         \* views.py module state: _alert_service, the AlertStates constructed, the requests resolving it

vars == <<alert_state, sustain_seconds, call, hist, notification, settings,
          sms_call, email_call, normalize_call, normalize_prev,
          thresholds_call, score_call, predictor, department_call,
          now, readings, pending, eval, response, singleton>>

alert_vars == <<alert_state, sustain_seconds, call, hist>>
notify_vars == <<notification, settings, sms_call, email_call>>
normalize_vars == <<normalize_call, normalize_prev>>
predictor_vars == <<thresholds_call, score_call>>
service_vars == <<now, readings, pending, eval, response>>

----------------------------------------------------------------------------
(* Values *)

\* Python's None; an Optional value v is <<v>>
None == <<>>

Some(v) == <<v>>

\* fixed-point unit of a float: 1.0 is ONE
ONE == 10000

\* the float n.0
P(n) == n * ONE

Min(a, b) == IF a <= b THEN a ELSE b

\* class AlertLevel
NORMAL == 1
MODERATE == 2
STRONG == 3

----------------------------------------------------------------------------
(* Bounds and input sets *)

\* number of 30 s windows the sampled instants span
MaxWindows == 2

\* the history counters saturate here
MaxAlerts == 2

\* SUSTAIN_SECONDS values the service is constructed with
SustainChoices == {0, 30}

\* instants (seconds): 0, and around each later multiple of 30 s the second
\* before it, the multiple itself and the second after it
Timestamps == {0} \cup {k * 30 + d : k \in 1..MaxWindows, d \in {-1, 0, 1}}

\* fused scores passed to check_sustained_alert
Scores == {P(30), P(50), P(70), P(100)}

\* <<threshold_moderate, threshold_strong>> passed to check_sustained_alert:
\* ordered and inverted
ThresholdPairs == {<<P(50), P(70)>>, <<P(70), P(50)>>}

----------------------------------------------------------------------------
(* alert_service.py: AlertState *)

\* AlertState.__init__
AlertState == [above_since |-> None, alert_sent |-> FALSE, last_level |-> NORMAL]

\* reset that forgets to clear above_since
reset_keeps_since(self) ==
    [self EXCEPT !.alert_sent = FALSE, !.last_level = NORMAL]

\* reset that forgets to clear last_level
reset_keeps_level(self) ==
    [self EXCEPT !.above_since = None, !.alert_sent = FALSE]

\* reset that forgets to clear alert_sent
reset_keeps_sent(self) ==
    [self EXCEPT !.above_since = None, !.last_level = NORMAL]

\* AlertState.reset
reset(self) ==
    [self EXCEPT !.above_since = None, !.alert_sent = FALSE, !.last_level = NORMAL]

----------------------------------------------------------------------------
(* alert_service.py: AlertService.check_sustained_alert *)

\* classification with strict comparisons
level_of_strict(fused_score, threshold_moderate, threshold_strong) ==
    IF fused_score > threshold_strong THEN STRONG
    ELSE IF fused_score > threshold_moderate THEN MODERATE
    ELSE NORMAL

\* classification from the bottom: NORMAL is decided first
level_of_normal_first(fused_score, threshold_moderate, threshold_strong) ==
    IF fused_score < threshold_moderate THEN NORMAL
    ELSE IF fused_score < threshold_strong THEN MODERATE
    ELSE STRONG

\* lines 162-166: the level of a score; the else branch (below moderate) is NORMAL
level_of(fused_score, threshold_moderate, threshold_strong) ==
    IF fused_score >= threshold_strong THEN STRONG
    ELSE IF fused_score >= threshold_moderate THEN MODERATE
    ELSE NORMAL

\* elapsed taken as a distance, whatever the order of the two instants
total_seconds_abs(timestamp, above_since) ==
    IF timestamp >= above_since THEN timestamp - above_since ELSE above_since - timestamp

\* line 184: (timestamp - above_since).total_seconds()
total_seconds(timestamp, above_since) == timestamp - above_since

\* trigger that does not look at alert_sent
trigger_resend(elapsed, sustain, alert_sent) ==
    elapsed >= sustain

\* trigger one second early
trigger_early(elapsed, sustain, alert_sent) ==
    elapsed >= sustain - 1 /\ ~alert_sent

\* line 190: the trigger condition
trigger(elapsed, sustain, alert_sent) ==
    elapsed >= sustain /\ ~alert_sent

\* lines 194-203: the message, as its template and the score it formats
message_of(level, fused_score) ==
    IF level = STRONG
    THEN [template |-> "Level-3 STRONG", score |-> fused_score]
    ELSE [template |-> "Level-2 MODERATE", score |-> fused_score]

\* still_above whose alert carries the level recorded at the first crossing
still_above_first_level(self, level, fused_score, timestamp) ==
    LET st == self.alert_state
        elapsed == total_seconds(timestamp, st.above_since[1])
    IN  IF trigger(elapsed, self.sustain_seconds, st.alert_sent)
        THEN [alert_state |-> [st EXCEPT !.alert_sent = TRUE],
              ret |-> Some([level |-> st.last_level,
                            message |-> message_of(st.last_level, fused_score),
                            score |-> fused_score,
                            sustained_seconds |-> elapsed]),
              level |-> level, elapsed |-> Some(elapsed), raised |-> FALSE]
        ELSE [alert_state |-> st, ret |-> None,
              level |-> level, elapsed |-> Some(elapsed), raised |-> FALSE]

\* still_above that stores the classified level on every call
still_above_tracks_level(self, level, fused_score, timestamp) ==
    LET st == self.alert_state
        elapsed == total_seconds(timestamp, st.above_since[1])
    IN  IF trigger(elapsed, self.sustain_seconds, st.alert_sent)
        THEN [alert_state |-> [st EXCEPT !.alert_sent = TRUE, !.last_level = level],
              ret |-> Some([level |-> level,
                            message |-> message_of(level, fused_score),
                            score |-> fused_score,
                            sustained_seconds |-> elapsed]),
              level |-> level, elapsed |-> Some(elapsed), raised |-> FALSE]
        ELSE [alert_state |-> [st EXCEPT !.last_level = level], ret |-> None,
              level |-> level, elapsed |-> Some(elapsed), raised |-> FALSE]

\* still_above that starts a new episode once the alert is returned
still_above_rearms(self, level, fused_score, timestamp) ==
    LET st == self.alert_state
        elapsed == total_seconds(timestamp, st.above_since[1])
    IN  IF trigger(elapsed, self.sustain_seconds, st.alert_sent)
        THEN [alert_state |-> [reset(st) EXCEPT !.last_level = level],
              ret |-> Some([level |-> level,
                            message |-> message_of(level, fused_score),
                            score |-> fused_score,
                            sustained_seconds |-> elapsed]),
              level |-> level, elapsed |-> Some(elapsed), raised |-> FALSE]
        ELSE [alert_state |-> st, ret |-> None,
              level |-> level, elapsed |-> Some(elapsed), raised |-> FALSE]

\* Lines 183-214: the score is above threshold on a call after the first
\* crossing.  timestamp - above_since is a TypeError when above_since is None.
still_above(self, level, fused_score, timestamp) ==
    LET st == self.alert_state
    IN  IF st.above_since = None
        THEN [alert_state |-> st, ret |-> None, level |-> level, elapsed |-> None,
              raised |-> TRUE]
        ELSE LET elapsed == total_seconds(timestamp, st.above_since[1])
             IN  IF trigger(elapsed, self.sustain_seconds, st.alert_sent)
                 THEN [alert_state |-> [st EXCEPT !.alert_sent = TRUE, !.last_level = level],
                       ret |-> Some([level |-> level,
                                     message |-> message_of(level, fused_score),
                                     score |-> fused_score,
                                     sustained_seconds |-> elapsed]),
                       level |-> level, elapsed |-> Some(elapsed), raised |-> FALSE]
                 ELSE [alert_state |-> st, ret |-> None,
                       level |-> level, elapsed |-> Some(elapsed), raised |-> FALSE]

\* first crossing that starts the timer without recording the level
first_crossing_keeps_level(self, level, fused_score, timestamp) ==
    [alert_state |-> [self.alert_state EXCEPT !.above_since = Some(timestamp)],
     ret |-> None, level |-> level, elapsed |-> None, raised |-> FALSE]

\* first crossing that goes on to the sustain test instead of returning
first_crossing_falls_through(self, level, fused_score, timestamp) ==
    still_above([self EXCEPT !.alert_state =
                     [self.alert_state EXCEPT !.above_since = Some(timestamp),
                                              !.last_level = level]],
                level, fused_score, timestamp)

\* Lines 173-181: the first crossing starts the timer and returns None.
first_crossing(self, level, fused_score, timestamp) ==
    [alert_state |-> [self.alert_state EXCEPT !.above_since = Some(timestamp),
                                              !.last_level = level],
     ret |-> None, level |-> level, elapsed |-> None, raised |-> FALSE]

\* The whole method.  self is [alert_state, sustain_seconds]; the result is the
\* new alert_state, the return value (None or Some(alert dict)), the locals
\* level and elapsed (None where the code does not compute it) and whether an
\* exception left the method.
check_sustained_alert(self, fused_score, threshold_moderate, threshold_strong, timestamp) ==
    LET st == self.alert_state
        level == level_of(fused_score, threshold_moderate, threshold_strong)
    IN  IF level = NORMAL
        THEN [alert_state |-> reset(st), ret |-> None, level |-> level, elapsed |-> None,
              raised |-> FALSE]
        ELSE IF st.above_since = None
        THEN first_crossing(self, level, fused_score, timestamp)
        ELSE still_above(self, level, fused_score, timestamp)

\* no call made yet
NoCall ==
    [op |-> "none", fused_score |-> 0, threshold_moderate |-> 0, threshold_strong |-> 0,
     timestamp |-> 0, before |-> AlertState, level |-> NORMAL, elapsed |-> None, ret |-> None,
     raised |-> FALSE]

NoHist == [alerts |-> 0, sustained |-> FALSE, total |-> 0]

\* The history after a call: a NORMAL call ends the episode; an elevated call
\* that computed elapsed >= sustain_seconds marks the episode sustained; an
\* alert returned is counted for the episode and overall.
hist_after(h, r, sustain) ==
    LET got == IF r.ret = None THEN 0 ELSE 1
    IN  IF r.level = NORMAL
        THEN [alerts |-> 0, sustained |-> FALSE, total |-> h.total]
        ELSE [alerts |-> Min(h.alerts + got, MaxAlerts),
              sustained |-> h.sustained \/ (r.elapsed # None /\ r.elapsed[1] >= sustain),
              total |-> Min(h.total + got, MaxAlerts)]

\* One call of check_sustained_alert on the service's AlertState, its
\* timestamp drawn from timestamps.
CheckSustainedAlertAt(timestamps) ==
    \E fused_score \in Scores, th \in ThresholdPairs, timestamp \in timestamps :
        \E r \in {check_sustained_alert(
                     [alert_state |-> alert_state, sustain_seconds |-> sustain_seconds],
                     fused_score, th[1], th[2], timestamp)} :
            /\ alert_state' = r.alert_state
            /\ call' = [op |-> "check_sustained_alert", fused_score |-> fused_score,
                        threshold_moderate |-> th[1], threshold_strong |-> th[2],
                        timestamp |-> timestamp, before |-> alert_state,
                        level |-> r.level, elapsed |-> r.elapsed, ret |-> r.ret,
                        raised |-> r.raised]
            /\ hist' = hist_after(hist, r, sustain_seconds)
            /\ UNCHANGED <<sustain_seconds, notify_vars, normalize_vars, predictor_vars,
                           predictor, department_call, service_vars, singleton>>

\* One call of check_sustained_alert at any of the sampled instants.
CheckSustainedAlert == CheckSustainedAlertAt(Timestamps)

\* the instants at which a window starts
WindowStarts == {k * 30 : k \in 0..MaxWindows}

\* the window starts and the instants one window after each
LateTimestamps == WindowStarts \cup {t + s : t \in WindowStarts, s \in SustainChoices}

\* A call of check_sustained_alert made while above_since is set, at an
\* instant at least sustain_seconds after above_since.
LateCall ==
    /\ alert_state.above_since # None
    /\ CheckSustainedAlertAt({t \in LateTimestamps :
                                 t >= alert_state.above_since[1] + sustain_seconds})

----------------------------------------------------------------------------
(* predictor.py: ThresholdPredictor *)

\* readings and predicted baselines of ammonia (ppm):
\* -1.0, 0.0, 0.0005, 1.0004, 3.3335, 5.0 (the ceiling), 8.0
Ammonia == {-ONE, 0, 5, ONE + 4, 3 * ONE + 3335, 5 * ONE, 8 * ONE}

\* readings and predicted baselines of hydrogen sulfide (ppm):
\* -0.01, 0.0, 0.0333, 0.06, 0.1 (the ceiling), 0.2
HydrogenSulfide == {-100, 0, 333, 600, ONE \div 10, ONE \div 5}

\* max_value arguments of normalize: 0.1, 1.0, 5.0
MaxValues == {ONE \div 10, ONE, 5 * ONE}

\* the literal 5.0 of lines 89 and 114
NH3_MAX == 5 * ONE

\* the literal 0.1 of lines 91 and 115
H2S_MAX == ONE \div 10

\* x * 0.5
half(x) == x \div 2

\* x * 1.5
times_1_5(x) == (x * 3) \div 2

\* x * 2.0
times_2_0(x) == x * 2

\* round(x, 2): the nearest hundredth, a tie going to the even hundredth
round2(x) ==
    LET step == ONE \div 100
        q == x \div step
        r == x % step
    IN  IF 2 * r < step THEN q * step
        ELSE IF 2 * r > step THEN (q + 1) * step
        ELSE IF q % 2 = 0 THEN q * step
        ELSE (q + 1) * step

\* normalize without the upper clamp
normalize_unclamped(value, max_value) ==
    IF value <= 0 THEN 0
    ELSE value * (P(100) \div max_value)

\* normalize without the lower clamp
normalize_signed(value, max_value) ==
    IF value >= max_value THEN P(100)
    ELSE value * (P(100) \div max_value)

\* ThresholdPredictor.normalize.  (value / max_value) * 100.0 is computed as
\* value * (100.0 / max_value): every max_value used divides 100.0 in the
\* fixed-point unit, so the result is exact and stays within 32 bits.
normalize(value, max_value) ==
    IF value <= 0 THEN 0
    ELSE IF value >= max_value THEN P(100)
    ELSE value * (P(100) \div max_value)

\* lines 89-94: the fused baseline, not rounded
fused_baseline_of(baseline_nh3, baseline_h2s) ==
    half(normalize(baseline_nh3, NH3_MAX)) + half(normalize(baseline_h2s, H2S_MAX))

\* predict_thresholds without the min(100.0, ...) clamp
predict_thresholds_unclamped(baseline_nh3, baseline_h2s) ==
    LET fused_baseline == fused_baseline_of(baseline_nh3, baseline_h2s)
    IN  [baseline_fused |-> round2(fused_baseline),
         score_moderate |-> round2(times_1_5(fused_baseline)),
         score_strong |-> round2(times_2_0(fused_baseline))]

\* predict_thresholds deriving the thresholds from the rounded baseline
predict_thresholds_rounds_first(baseline_nh3, baseline_h2s) ==
    LET fused_baseline == round2(fused_baseline_of(baseline_nh3, baseline_h2s))
    IN  [baseline_fused |-> fused_baseline,
         score_moderate |-> round2(Min(P(100), times_1_5(fused_baseline))),
         score_strong |-> round2(Min(P(100), times_2_0(fused_baseline)))]

\* ThresholdPredictor.predict_thresholds, from line 87 on: the ThresholdSet for
\* the baselines (baseline_nh3, baseline_h2s) the regression model predicted
predict_thresholds(baseline_nh3, baseline_h2s) ==
    LET fused_baseline == fused_baseline_of(baseline_nh3, baseline_h2s)
        score_moderate == Min(P(100), times_1_5(fused_baseline))
        score_strong == Min(P(100), times_2_0(fused_baseline))
    IN  [baseline_fused |-> round2(fused_baseline),
         score_moderate |-> round2(score_moderate),
         score_strong |-> round2(score_strong)]

\* compute_fused_score returning the score unrounded
compute_fused_score_unrounded(ammonia_ppm, h2s_ppm) ==
    half(normalize(ammonia_ppm, NH3_MAX)) + half(normalize(h2s_ppm, H2S_MAX))

\* ThresholdPredictor.compute_fused_score
compute_fused_score(ammonia_ppm, h2s_ppm) ==
    LET norm_nh3 == normalize(ammonia_ppm, NH3_MAX)
        norm_h2s == normalize(h2s_ppm, H2S_MAX)
        fused_score == half(norm_nh3) + half(norm_h2s)
    IN  round2(fused_score)

\* One call of normalize.
Normalize ==
    \E value \in Ammonia \cup HydrogenSulfide, max_value \in MaxValues :
        /\ normalize_call' = [op |-> "normalize", value |-> value,
                              max_value |-> max_value, ret |-> normalize(value, max_value)]
        /\ normalize_prev' = normalize_call
        /\ UNCHANGED <<alert_vars, notify_vars, predictor_vars,
                       predictor, department_call, service_vars, singleton>>

\* what the file at model_path holds: nothing, bytes pickle cannot load, the
\* pickled regression model, or the pickle of None
Artifacts == {"missing", "unreadable", "model", "pickled None"}

ThresholdPredictor_swallows(artifact) ==
    [artifact |-> artifact, raised |-> FALSE,
     instance |-> Some([model |-> IF artifact = "model" THEN Some("model") ELSE None])]

\* ThresholdPredictor(): __init__ sets model to None and calls _load_model, which
\* re-raises FileNotFoundError and every other Exception and otherwise stores
\* what pickle.load returned.  instance is None when the constructor raised.
ThresholdPredictor(artifact) ==
    IF artifact \in {"missing", "unreadable"}
    THEN [artifact |-> artifact, raised |-> TRUE, instance |-> None]
    ELSE [artifact |-> artifact, raised |-> FALSE,
          instance |-> Some([model |-> IF artifact = "model" THEN Some("model") ELSE None])]

\* the ThresholdSet of a call that raised: there is none
NoThresholdSet == [baseline_fused |-> 0, score_moderate |-> 0, score_strong |-> 0]

\* The whole method predict_thresholds on an instance.  prediction is what
\* self.model.predict returns for the temperature and humidity, Some(<<nh3, h2s>>),
\* or None when predict raises; RuntimeError when the model is None.
predict_thresholds_on(self, prediction) ==
    IF self.model = None \/ prediction = None
    THEN [raised |-> TRUE, ret |-> NoThresholdSet]
    ELSE [raised |-> FALSE, ret |-> predict_thresholds(prediction[1][1], prediction[1][2])]

\* One call of predict_thresholds; the model's prediction is the input.
PredictThresholds ==
    /\ predictor.instance # None
    /\ \E baseline_nh3 \in Ammonia, baseline_h2s \in HydrogenSulfide :
        \E r \in {predict_thresholds_on(predictor.instance[1],
                                        Some(<<baseline_nh3, baseline_h2s>>))} :
            /\ thresholds_call' = [op |-> "predict_thresholds",
                                   baseline_nh3 |-> baseline_nh3,
                                   baseline_h2s |-> baseline_h2s,
                                   raised |-> r.raised, ret |-> r.ret]
            /\ UNCHANGED <<alert_vars, notify_vars, normalize_vars, score_call,
                           predictor, department_call, service_vars, singleton>>

\* One call of compute_fused_score, which does not read self.model.
ComputeFusedScore ==
    /\ predictor.instance # None
    /\ \E ammonia_ppm \in Ammonia, h2s_ppm \in HydrogenSulfide :
        /\ score_call' = [op |-> "compute_fused_score",
                          ammonia_ppm |-> ammonia_ppm, h2s_ppm |-> h2s_ppm,
                          raised |-> FALSE,
                          ret |-> compute_fused_score(ammonia_ppm, h2s_ppm)]
        /\ UNCHANGED <<alert_vars, notify_vars, normalize_vars, thresholds_call,
                       predictor, department_call, service_vars, singleton>>

----------------------------------------------------------------------------
(* alert_service.py: NotificationService *)

\* what the transport call (Twilio messages.create, SendGrid send) does when
\* it is made: it completes, or it raises an Exception
TransportOutcomes == {"ok", "raise"}

\* send_sms without the try/except around the transport call
send_sms_propagates(self, cfg, transport) ==
    IF ~self.sms_client
    THEN [ret |-> FALSE, raised |-> FALSE, attempted |-> FALSE]
    ELSE IF ~cfg.twilio_phone \/ ~cfg.alert_phone
    THEN [ret |-> FALSE, raised |-> FALSE, attempted |-> FALSE]
    ELSE IF transport = "ok"
    THEN [ret |-> TRUE, raised |-> FALSE, attempted |-> TRUE]
    ELSE [ret |-> FALSE, raised |-> TRUE, attempted |-> TRUE]

\* NotificationService.send_sms.  self is the service, cfg the settings,
\* transport what messages.create does if it is called.  The result is the
\* return value, whether an exception left the method, and whether the
\* transport call was made.
send_sms(self, cfg, transport) ==
    IF ~self.sms_client
    THEN [ret |-> FALSE, raised |-> FALSE, attempted |-> FALSE]
    ELSE IF ~cfg.twilio_phone \/ ~cfg.alert_phone
    THEN [ret |-> FALSE, raised |-> FALSE, attempted |-> FALSE]
    ELSE IF transport = "ok"
    THEN [ret |-> TRUE, raised |-> FALSE, attempted |-> TRUE]
    ELSE [ret |-> FALSE, raised |-> FALSE, attempted |-> TRUE]

\* NotificationService.send_email
send_email(self, cfg, transport) ==
    IF ~self.sendgrid_client
    THEN [ret |-> FALSE, raised |-> FALSE, attempted |-> FALSE]
    ELSE IF ~cfg.from_email \/ ~cfg.alert_email
    THEN [ret |-> FALSE, raised |-> FALSE, attempted |-> FALSE]
    ELSE IF transport = "ok"
    THEN [ret |-> TRUE, raised |-> FALSE, attempted |-> TRUE]
    ELSE [ret |-> FALSE, raised |-> FALSE, attempted |-> TRUE]

\* the record of a send: its result and, if the transport call was made, what
\* the transport did
sent(op, r, transport) ==
    [op |-> op, ret |-> r.ret, raised |-> r.raised, attempted |-> r.attempted,
     transport |-> IF r.attempted THEN transport ELSE "none"]

\* One call of send_sms.
SendSms ==
    \E transport \in TransportOutcomes :
        /\ sms_call' = sent("send_sms", send_sms(notification, settings, transport), transport)
        /\ UNCHANGED <<alert_vars, notification, settings, email_call,
                       normalize_vars, predictor_vars,
                       predictor, department_call, service_vars, singleton>>

\* One call of send_email.
SendEmail ==
    \E transport \in TransportOutcomes :
        /\ email_call' = sent("send_email", send_email(notification, settings, transport), transport)
        /\ UNCHANGED <<alert_vars, notification, settings, sms_call,
                       normalize_vars, predictor_vars,
                       predictor, department_call, service_vars, singleton>>

----------------------------------------------------------------------------
(* services/servicenow/service.py: determine_department *)

\* A str is the sequence of its characters.
UpperCase == <<"A", "B", "C", "D", "E", "F", "G", "H", "I", "J", "K", "L", "M", "N", "O", "P", "Q", "R", "S", "T", "U", "V", "W", "X", "Y", "Z">>
LowerCase == <<"a", "b", "c", "d", "e", "f", "g", "h", "i", "j", "k", "l", "m", "n", "o", "p", "q", "r", "s", "t", "u", "v", "w", "x", "y", "z">>

\* str.lower() of one character
lower_char(c) ==
    IF \E i \in 1..Len(UpperCase) : UpperCase[i] = c
    THEN LowerCase[CHOOSE i \in 1..Len(UpperCase) : UpperCase[i] = c]
    ELSE c

\* str.lower()
lower(str) == [i \in 1..Len(str) |-> lower_char(str[i])]

\* keyword in str
in(keyword, str) ==
    \E i \in 1..(Len(str) - Len(keyword) + 1) :
        SubSeq(str, i, i + Len(keyword) - 1) = keyword

it_keywords == {<<"w", "i", "f", "i">>, <<"i", "n", "t", "e", "r", "n", "e", "t">>, <<"s", "p", "e", "e", "d">>}
electronics_keywords == {<<"l", "i", "g", "h", "t">>, <<"b", "u", "l", "b">>, <<"w", "i", "r", "e">>, <<"s", "w", "i", "t", "c", "h">>}
furniture_keywords == {<<"c", "h", "a", "i", "r">>,
                       <<"d", "o", "o", "r">>,
                       <<"d", "o", "o", "r", " ", "h", "a", "n", "d", "l", "e">>,
                       <<"h", "a", "n", "d", "l", "e">>,
                       <<"t", "a", "b", "l", "e">>,
                       <<"d", "e", "s", "k">>,
                       <<"b", "e", "n", "c", "h">>}

determine_department_case_sensitive(description) ==
    IF \E keyword \in it_keywords : in(keyword, description)
    THEN "IT Department"
    ELSE IF \E keyword \in electronics_keywords : in(keyword, description)
    THEN "Electronics Department"
    ELSE IF \E keyword \in furniture_keywords : in(keyword, description)
    THEN "Furniture Department"
    ELSE "General Maintenance"

determine_department(description) ==
    LET description_lower == lower(description)
    IN  IF \E keyword \in it_keywords : in(keyword, description_lower)
        THEN "IT Department"
        ELSE IF \E keyword \in electronics_keywords : in(keyword, description_lower)
        THEN "Electronics Department"
        ELSE IF \E keyword \in furniture_keywords : in(keyword, description_lower)
        THEN "Furniture Department"
        ELSE "General Maintenance"

\* Descriptions are made of at most MaxFragments of these pieces, written one
\* after the other: keywords in several cases, keywords split in two, a
\* space and a word of no group.
MaxFragments == 3

Fragments == {<<"W", "i">>,
              <<"f", "i">>,
              <<"L", "I", "G", "H", "T">>,
              <<"D", "o", "o", "r">>,
              <<"h", "a", "n", "d", "l", "e">>,
              <<"s", "p", "e", "e", "d">>,
              <<" ">>,
              <<"p", "a", "i", "n", "t">>}

RECURSIVE DescriptionsOf(_)
DescriptionsOf(n) ==
    IF n = 0 THEN {<<>>}
    ELSE LET shorter == DescriptionsOf(n - 1)
         IN  shorter \cup {d \o f : d \in shorter, f \in Fragments}

Descriptions == DescriptionsOf(MaxFragments)

NoDepartment == [op |-> "none", description |-> <<>>, ret |-> ""]

\* One call of determine_department on the description chosen initially.
DetermineDepartment ==
    /\ department_call.op = "none"
    /\ department_call' = [op |-> "determine_department",
                           description |-> department_call.description,
                           ret |-> determine_department(department_call.description)]
    /\ UNCHANGED <<alert_vars, notify_vars, normalize_vars, predictor_vars,
                   predictor, service_vars, singleton>>

----------------------------------------------------------------------------
(* services/esp32/crud.py: ESP32Service, and web/api/esp32/views.py *)

\* the table holds at most MaxReadings rows
MaxReadings == 2

\* ammonia and hydrogen sulfide of a posted reading (ppm): clean air, a fused
\* score of 35.0 and a fused score of 50.0
GasReadings == {<<0, 0>>, <<ONE + ONE \div 2, 400>>, <<2 * ONE + ONE \div 2, 500>>}

\* A reading's temperature and humidity are represented by what the regression
\* model predicts for them: baselines of 1.0 and 0.02 ppm (thresholds 30.0 and
\* 40.0), or None when model.predict raises on them.
Predictions == {Some(<<ONE, 200>>), None}

\* the readings posted: each gas reading under the usual baselines, and a
\* reading the model cannot predict for
PostedReadings ==
    {<<gas, Some(<<ONE, 200>>)>> : gas \in GasReadings}
        \cup {<<<<ONE + ONE \div 2, 400>>, None>>}

send_alert_notifications_raises(self, sms_transport, email_transport) ==
    LET sms == send_sms(self.notification, self.settings, sms_transport)
        email == send_email(self.notification, self.settings, email_transport)
    IN  [sms |-> sms, email |-> email, calls |-> <<"send_sms", "send_email">>,
         raised |-> ~sms.ret /\ ~email.ret]

\* send_alert_notifications that falls back to e-mail only when the SMS failed
send_alert_notifications_fallback(self, sms_transport, email_transport) ==
    LET sms == send_sms(self.notification, self.settings, sms_transport)
    IN  IF sms.ret
        THEN [sms |-> sms,
              email |-> [ret |-> FALSE, raised |-> FALSE, attempted |-> FALSE],
              calls |-> <<"send_sms">>, raised |-> FALSE]
        ELSE [sms |-> sms,
              email |-> send_email(self.notification, self.settings, email_transport),
              calls |-> <<"send_sms", "send_email">>, raised |-> FALSE]

\* AlertService.send_alert_notifications: send_sms is called, then send_email
\* whatever send_sms returned; their results are logged and nothing is
\* returned.  calls lists the calls made on the NotificationService, in order.
send_alert_notifications(self, sms_transport, email_transport) ==
    [sms |-> send_sms(self.notification, self.settings, sms_transport),
     email |-> send_email(self.notification, self.settings, email_transport),
     calls |-> <<"send_sms", "send_email">>,
     raised |-> FALSE]

evaluation_timestamp_of_reading(reading, clock) == reading.created_at

\* crud.py line 137: the timestamp handed to check_sustained_alert is
\* datetime.now(); clock is what it returns.
evaluation_timestamp(reading, clock) == clock

NoDispatch ==
    [sms |-> [ret |-> FALSE, raised |-> FALSE, attempted |-> FALSE],
     email |-> [ret |-> FALSE, raised |-> FALSE, attempted |-> FALSE],
     calls |-> <<>>,
     raised |-> FALSE]

\* ESP32Service.evaluate_alert.  self is the service (predictor, alert_state,
\* sustain_seconds, notification, settings), reading the row, clock what
\* datetime.now() returns.  The result holds what each step produced: the
\* thresholds call, the fused score, the state-machine call (checked is
\* FALSE when it was not reached), the dispatch (dispatched is FALSE when
\* send_alert_notifications was not called), whether an exception left the
\* method, and the returned dict (None when it raised).
evaluate_alert(self, reading, clock, sms_transport, email_transport) ==
    LET th == predict_thresholds_on(self.predictor, reading.prediction)
        noop == [alert_state |-> self.alert_state, ret |-> None, level |-> NORMAL,
                 elapsed |-> None, raised |-> FALSE]
    IN  IF th.raised
        THEN [thresholds |-> th, fused_score |-> 0, checked |-> FALSE, check |-> noop,
              clock |-> 0, timestamp |-> 0, dispatched |-> FALSE, dispatch |-> NoDispatch,
              raised |-> TRUE, result |-> None]
        ELSE
        LET fused_score == compute_fused_score(reading.ammonia_ppm, reading.h2s_ppm)
            timestamp == evaluation_timestamp(reading, clock)
            r == check_sustained_alert(
                     [alert_state |-> self.alert_state, sustain_seconds |-> self.sustain_seconds],
                     fused_score, th.ret.score_moderate, th.ret.score_strong, timestamp)
            base == [thresholds |-> th, fused_score |-> fused_score, checked |-> TRUE,
                     check |-> r, clock |-> clock, timestamp |-> timestamp,
                     dispatched |-> FALSE,
                     dispatch |-> NoDispatch, raised |-> FALSE, result |-> None]
        IN  IF r.raised
            THEN [base EXCEPT !.raised = TRUE]
            ELSE IF r.ret # None
            THEN LET d == send_alert_notifications(self, sms_transport, email_transport)
                 IN  IF d.raised
                     THEN [base EXCEPT !.dispatched = TRUE, !.dispatch = d, !.raised = TRUE]
                     ELSE [base EXCEPT !.dispatched = TRUE, !.dispatch = d,
                                       !.result = Some([alert |-> TRUE,
                                                        level |-> r.ret[1].level,
                                                        message |-> r.ret[1].message.template,
                                                        score |-> fused_score,
                                                        thresholds |-> th.ret])]
            ELSE [base EXCEPT !.result = Some([alert |-> FALSE,
                                               level |-> 1,
                                               message |-> "Normal conditions",
                                               score |-> fused_score,
                                               thresholds |-> th.ret])]

NoEval ==
    [op |-> "none", reading_id |-> 0, created_at |-> 0, clock |-> 0, timestamp |-> 0,
     checked |-> FALSE,
     level |-> NORMAL, elapsed |-> None, alerted |-> FALSE,
     dispatched |-> FALSE, sms_sent |-> FALSE, email_sent |-> FALSE,
     calls |-> <<>>, sms_calls |-> 0, email_calls |-> 0,
     raised |-> FALSE, result |-> None]

\* how many of the calls are calls of op
calls_of(op, calls) == Cardinality({i \in DOMAIN calls : calls[i] = op})

NoResponse == [handler |-> "none", status |-> 0, reading_id |-> 0, result |-> None]

\* One call of ESP32Service.evaluate_alert on the row reading_id within a
\* request: every object the call touches is updated.
EvaluateAlert(reading_id, e, sms_transport, email_transport) ==
    LET reading == readings[reading_id]
    IN  /\ thresholds_call' = [op |-> "predict_thresholds",
                               baseline_nh3 |-> IF reading.prediction = None THEN 0
                                                ELSE reading.prediction[1][1],
                               baseline_h2s |-> IF reading.prediction = None THEN 0
                                                ELSE reading.prediction[1][2],
                               raised |-> e.thresholds.raised, ret |-> e.thresholds.ret]
        /\ score_call' = IF e.checked
                         THEN [op |-> "compute_fused_score",
                               ammonia_ppm |-> reading.ammonia_ppm,
                               h2s_ppm |-> reading.h2s_ppm,
                               raised |-> FALSE, ret |-> e.fused_score]
                         ELSE score_call
        /\ alert_state' = e.check.alert_state
        /\ call' = IF e.checked
                   THEN [op |-> "check_sustained_alert", fused_score |-> e.fused_score,
                         threshold_moderate |-> e.thresholds.ret.score_moderate,
                         threshold_strong |-> e.thresholds.ret.score_strong,
                         timestamp |-> e.timestamp, before |-> alert_state,
                         level |-> e.check.level, elapsed |-> e.check.elapsed,
                         ret |-> e.check.ret, raised |-> e.check.raised]
                   ELSE call
        /\ hist' = IF e.checked THEN hist_after(hist, e.check, sustain_seconds) ELSE hist
        /\ sms_call' = IF e.dispatched
                       THEN sent("send_sms", e.dispatch.sms, sms_transport)
                       ELSE sms_call
        /\ email_call' = IF e.dispatched
                         THEN sent("send_email", e.dispatch.email, email_transport)
                         ELSE email_call
        /\ eval' = [op |-> "evaluate_alert", reading_id |-> reading_id,
                    created_at |-> reading.created_at, clock |-> e.clock,
                    timestamp |-> e.timestamp,
                    checked |-> e.checked, level |-> e.check.level,
                    elapsed |-> e.check.elapsed, alerted |-> e.check.ret # None,
                    dispatched |-> e.dispatched,
                    sms_sent |-> e.dispatch.sms.ret, email_sent |-> e.dispatch.email.ret,
                    calls |-> e.dispatch.calls,
                    sms_calls |-> Min(eval.sms_calls
                                          + calls_of("send_sms", e.dispatch.calls), MaxAlerts),
                    email_calls |-> Min(eval.email_calls
                                            + calls_of("send_email", e.dispatch.calls), MaxAlerts),
                    raised |-> e.raised, result |-> e.result]

\* a service whose evaluation works on the AlertState read before the
\* previous evaluation
ESP32Service_stale ==
    [predictor |-> predictor.instance[1], alert_state |-> call.before,
     sustain_seconds |-> sustain_seconds, notification |-> notification,
     settings |-> settings]

\* what the service's evaluate_alert is called on
ESP32Service ==
    [predictor |-> predictor.instance[1], alert_state |-> alert_state,
     sustain_seconds |-> sustain_seconds, notification |-> notification,
     settings |-> settings]

\* the times at which requests are served
ClockTimes == {0, 30}

\* the clock never runs backwards
Clock == {t \in ClockTimes : t >= now}

create_reading_propagates(reading_id, e) ==
    IF e.raised
    THEN [handler |-> "create_reading", status |-> 500, reading_id |-> 0, result |-> None]
    ELSE [handler |-> "create_reading", status |-> 201, reading_id |-> reading_id,
          result |-> None]

\* views.create_reading, after the insert: an Exception of evaluate_alert is
\* logged, and the reading is the response either way.
create_reading(reading_id, e) ==
    [handler |-> "create_reading", status |-> 201, reading_id |-> reading_id, result |-> None]

\* views.evaluate_alert: 404 without the row; an exception of the service's
\* evaluate_alert is not caught and becomes the framework's 500.
evaluate_alert_view(found, reading_id, e) ==
    IF ~found
    THEN [handler |-> "evaluate_alert", status |-> 404, reading_id |-> reading_id,
          result |-> None]
    ELSE IF e.raised
    THEN [handler |-> "evaluate_alert", status |-> 500, reading_id |-> reading_id,
          result |-> None]
    ELSE [handler |-> "evaluate_alert", status |-> 200, reading_id |-> reading_id,
          result |-> e.result]

\* What the two transports do in an evaluation: they are consulted only when
\* send_alert_notifications is called.
Transports(reading_id, clock) ==
    IF evaluate_alert(ESP32Service, readings[reading_id], clock, "ok", "ok").dispatched
    THEN TransportOutcomes \X TransportOutcomes
    ELSE {<<"ok", "ok">>}

\* POST /readings up to the end of "await service.create_reading": the row is
\* inserted with created_at = datetime.now().
CreateReadingInsert ==
    /\ Len(readings) < MaxReadings
    /\ \E posted \in PostedReadings, clock \in Clock :
        /\ readings' = Append(readings, [ammonia_ppm |-> posted[1][1],
                                         h2s_ppm |-> posted[1][2],
                                         prediction |-> posted[2], created_at |-> clock])
        /\ now' = clock
        /\ pending' = pending \cup {Len(readings) + 1}
        /\ UNCHANGED <<alert_vars, notify_vars, normalize_vars, predictor_vars,
                       predictor, department_call, eval, response, singleton>>

\* POST /readings from "await service.evaluate_alert(reading)" to the response.
CreateReadingEvaluate ==
    \E reading_id \in pending, clock \in Clock :
      \E transport \in Transports(reading_id, clock) :
        \E e \in {evaluate_alert(ESP32Service, readings[reading_id], clock,
                                 transport[1], transport[2])} :
            /\ EvaluateAlert(reading_id, e, transport[1], transport[2])
            /\ now' = IF e.checked THEN clock ELSE now
            /\ pending' = pending \ {reading_id}
            /\ response' = create_reading(reading_id, e)
            /\ UNCHANGED <<sustain_seconds, notification, settings, normalize_vars,
                           predictor, department_call, readings, singleton>>

\* POST /alerts/evaluate/{reading_id} on a row of the table.
EvaluateAlertView ==
    \E reading_id \in 1..Len(readings), clock \in Clock :
      \E transport \in Transports(reading_id, clock) :
        \E e \in {evaluate_alert(ESP32Service, readings[reading_id], clock,
                                 transport[1], transport[2])} :
            /\ EvaluateAlert(reading_id, e, transport[1], transport[2])
            /\ now' = IF e.checked THEN clock ELSE now
            /\ response' = evaluate_alert_view(TRUE, reading_id, e)
            /\ UNCHANGED <<sustain_seconds, notification, settings, normalize_vars,
                           predictor, department_call, readings, pending, singleton>>

\* POST /alerts/evaluate/{reading_id} for an id that has no row.
EvaluateAlertViewNotFound ==
    /\ response' = evaluate_alert_view(FALSE, Len(readings) + 1, NoEval)
    /\ UNCHANGED <<alert_vars, notify_vars, normalize_vars, predictor_vars,
                   predictor, department_call, now, readings, pending, eval,
                   singleton>>

----------------------------------------------------------------------------
(* web/api/esp32/views.py: get_alert_service, resolved by concurrent requests *)

\* get_esp32_service is a plain function, so each request resolves it on a
\* worker thread; at most MaxRequests requests are in progress at once
MaxRequests == 2

\* the module after import: _alert_service is None, no AlertService constructed,
\* no request in progress.  A request is idle, inside the if-block of
\* get_alert_service ("constructing") or holds the AlertService it was given
\* ("resolved"); service is the index of that AlertService in instances.
NoSingleton ==
    [_alert_service |-> None,
     instances |-> <<>>,
     requests |-> [r \in 1..MaxRequests |-> [pc |-> "idle", service |-> 0]]]

\* Line 32 of get_alert_service on the thread of request r: the test
\* "_alert_service is None"; when it fails, line 45 returns the singleton.
GetAlertServiceTest(r) ==
    /\ singleton.requests[r].pc = "idle"
    /\ singleton' =
           IF singleton._alert_service = None
           THEN [singleton EXCEPT !.requests[r].pc = "constructing"]
           ELSE [singleton EXCEPT !.requests[r] =
                     [pc |-> "resolved", service |-> singleton._alert_service[1]]]
    /\ UNCHANGED <<alert_vars, notify_vars, normalize_vars, predictor_vars,
                   predictor, department_call, service_vars>>

\* Lines 33-45 on the thread of request r: a NotificationService and an
\* AlertService are constructed, assigned to the globals and returned.
GetAlertServiceConstruct(r) ==
    /\ singleton.requests[r].pc = "constructing"
    /\ singleton' =
           [singleton EXCEPT !.instances = Append(@, AlertState),
                             !._alert_service = Some(Len(singleton.instances) + 1),
                             !.requests[r] =
                                 [pc |-> "resolved",
                                  service |-> Len(singleton.instances) + 1]]
    /\ UNCHANGED <<alert_vars, notify_vars, normalize_vars, predictor_vars,
                   predictor, department_call, service_vars>>

\* The handler of request r runs evaluate_alert on the ESP32Service it was
\* given: check_sustained_alert works on the AlertState of that service's
\* AlertService.  The request ends.
EvaluateResolved(r) ==
    /\ singleton.requests[r].pc = "resolved"
    /\ \E fused_score \in {P(30), P(70)}, clock \in Clock :
        LET service == singleton.requests[r].service
        IN  /\ singleton' =
                   [singleton EXCEPT
                        !.instances[service] =
                            check_sustained_alert(
                                [alert_state |-> singleton.instances[service],
                                 sustain_seconds |-> sustain_seconds],
                                fused_score, P(50), P(70), clock).alert_state,
                        !.requests[r] = [pc |-> "idle", service |-> 0]]
            /\ now' = clock
    /\ UNCHANGED <<alert_vars, notify_vars, normalize_vars, predictor_vars,
                   predictor, department_call, readings, pending, eval, response>>

----------------------------------------------------------------------------
(* States after construction, and the specification of the state machine *)

NoSend == [op |-> "none", ret |-> FALSE, raised |-> FALSE, attempted |-> FALSE, transport |-> "none"]

NoNormalize == [op |-> "none", value |-> 0, max_value |-> ONE, ret |-> 0]

NoThresholds ==
    [op |-> "none", baseline_nh3 |-> 0, baseline_h2s |-> 0, raised |-> FALSE,
     ret |-> NoThresholdSet]

NoScore == [op |-> "none", ammonia_ppm |-> 0, h2s_ppm |-> 0, raised |-> FALSE, ret |-> 0]

\* AlertService.__init__: a fresh AlertState and the configured sustain window
InitAlertService ==
    /\ alert_state = AlertState
    /\ sustain_seconds \in SustainChoices
    /\ call = NoCall
    /\ hist = NoHist

\* nothing configured, nothing sent
InitNoNotification ==
    /\ notification = [sms_client |-> FALSE, sendgrid_client |-> FALSE]
    /\ settings = [twilio_phone |-> FALSE, alert_phone |-> FALSE,
                   from_email |-> FALSE, alert_email |-> FALSE]
    /\ sms_call = NoSend
    /\ email_call = NoSend

InitNoPredictorCalls ==
    /\ normalize_call = NoNormalize
    /\ normalize_prev = NoNormalize
    /\ thresholds_call = NoThresholds
    /\ score_call = NoScore

\* views.py line 23: the predictor constructed from the model artifact
InitPredictor == predictor = ThresholdPredictor("model")

InitNoDepartment == department_call = NoDepartment

\* no request served yet: an empty table, the clock at 0
InitNoRequests ==
    /\ now = 0
    /\ readings = <<>>
    /\ pending = {}
    /\ eval = NoEval
    /\ response = NoResponse
    /\ singleton = NoSingleton

InitRest == InitPredictor /\ InitNoDepartment /\ InitNoRequests

InitAlert == InitAlertService /\ InitNoNotification /\ InitNoPredictorCalls /\ InitRest

NextAlert == CheckSustainedAlert

\* check_sustained_alert called any number of times on one AlertService
SpecAlert == InitAlert /\ [][NextAlert]_vars

NextAlertLive == CheckSustainedAlertAt(WindowStarts) \/ LateCall

\* check_sustained_alert called for ever: the callers' clocks grow without
\* bound, so while above_since stays set a call at least sustain_seconds
\* after it is eventually made
SpecAlertLive == InitAlert /\ [][NextAlertLive]_vars /\ WF_vars(LateCall)

\* NotificationService.__init__ under any configuration: each client exists or
\* not, each address is set or not; nothing sent yet
InitNotification ==
    /\ notification \in [sms_client : BOOLEAN, sendgrid_client : BOOLEAN]
    /\ settings \in [twilio_phone : BOOLEAN, alert_phone : BOOLEAN,
                     from_email : BOOLEAN, alert_email : BOOLEAN]
    /\ sms_call = NoSend
    /\ email_call = NoSend

InitNotify == InitAlertService /\ InitNotification /\ InitNoPredictorCalls /\ InitRest

NextNotify == SendSms \/ SendEmail

\* send_sms and send_email called any number of times on one NotificationService
SpecNotify == InitNotify /\ [][NextNotify]_vars

NextNormalize == Normalize

\* normalize applied to any values
SpecNormalize == InitAlert /\ [][NextNormalize]_vars

NextPredictor == PredictThresholds \/ ComputeFusedScore

\* predict_thresholds and compute_fused_score applied to any predictions and readings
SpecPredictor == InitAlert /\ [][NextPredictor]_vars

\* the constructor run on any artifact, then the two methods on the instance
InitLoad ==
    /\ InitAlertService /\ InitNoNotification /\ InitNoPredictorCalls
    /\ predictor \in {ThresholdPredictor(artifact) : artifact \in Artifacts}
    /\ InitNoDepartment /\ InitNoRequests

SpecLoad == InitLoad /\ [][NextPredictor]_vars

\* determine_department applied to any description
InitDepartment ==
    /\ InitAlertService /\ InitNoNotification /\ InitNoPredictorCalls
    /\ InitPredictor /\ InitNoRequests
    /\ department_call \in {[op |-> "none", description |-> d, ret |-> ""] :
                               d \in Descriptions}

NextDepartment == DetermineDepartment

SpecDepartment == InitDepartment /\ [][NextDepartment]_vars

NextSingleton ==
    \E r \in 1..MaxRequests :
        \/ GetAlertServiceTest(r)
        \/ GetAlertServiceConstruct(r)
        \/ EvaluateResolved(r)

\* requests resolving get_esp32_service on worker threads and evaluating
SpecSingleton == InitAlert /\ [][NextSingleton]_vars

\* what the regression model predicts for the rows already stored: baselines
\* that are both zero, both negative, or the usual 1.0 and 0.02 ppm
StoredPredictions == {<<0, 0>>, <<-ONE, -100>>, <<ONE, 200>>}

\* rows of the table written before the application started: clean air or a
\* fused score of 35.0, under each of the predictions
StoredReadings ==
    {[ammonia_ppm |-> gas[1], h2s_ppm |-> gas[2], prediction |-> Some(prediction),
      created_at |-> 0] : gas \in {<<0, 0>>, <<ONE + ONE \div 2, 400>>},
                          prediction \in StoredPredictions}

\* the application started on a table that already holds rows, with either
\* window and the SMS client present or not
InitStored ==
    /\ alert_state = AlertState
    /\ sustain_seconds \in SustainChoices
    /\ call = NoCall
    /\ hist = NoHist
    /\ notification \in [sms_client : BOOLEAN, sendgrid_client : {TRUE}]
    /\ settings = [twilio_phone |-> TRUE, alert_phone |-> TRUE,
                   from_email |-> TRUE, alert_email |-> TRUE]
    /\ sms_call = NoSend
    /\ email_call = NoSend
    /\ InitNoPredictorCalls
    /\ InitPredictor /\ InitNoDepartment
    /\ now = 0
    /\ readings \in UNION {[1..n -> StoredReadings] : n \in 1..MaxReadings}
    /\ pending = {}
    /\ eval = NoEval
    /\ response = NoResponse
    /\ singleton = NoSingleton

NextStored == EvaluateAlertView \/ EvaluateAlertViewNotFound

\* POST /alerts/evaluate/{reading_id} any number of times on stored rows
SpecStored == InitStored /\ [][NextStored]_vars

\* The running application: the predictor loaded at import, the SMS client
\* present or not, the e-mail client present and every address configured,
\* one AlertService with a window of 30 seconds.
Init ==
    /\ alert_state = AlertState
    /\ sustain_seconds = 30
    /\ call = NoCall
    /\ hist = NoHist
    /\ notification \in [sms_client : BOOLEAN, sendgrid_client : {TRUE}]
    /\ settings = [twilio_phone |-> TRUE, alert_phone |-> TRUE,
                   from_email |-> TRUE, alert_email |-> TRUE]
    /\ sms_call = NoSend
    /\ email_call = NoSend
    /\ InitNoPredictorCalls
    /\ InitRest

Next ==
    \/ CreateReadingInsert
    \/ CreateReadingEvaluate
    \/ EvaluateAlertView
    \/ EvaluateAlertViewNotFound

\* requests served in any order by the one event loop
Spec == Init /\ [][Next]_vars

----------------------------------------------------------------------------
(* Properties of check_sustained_alert *)

Called == call.op = "check_sustained_alert"

Elevated == call.level \in {MODERATE, STRONG}

\* the call computed elapsed, and it reached the sustain window
Sustained == call.elapsed # None /\ call.elapsed[1] >= sustain_seconds

\* C1: within one episode (a maximal run of consecutive calls classified
\* MODERATE or STRONG) exactly one alert is returned if some call of the run
\* computed elapsed >= sustain_seconds, and none otherwise; the alert is
\* returned by the first such call and every later call of the episode returns
\* None.  Checked for every order of timestamps, the non-decreasing ones
\* included.
C1_OneAlertPerEpisode ==
    [][ /\ hist'.alerts = (IF hist'.sustained THEN 1 ELSE 0)
        /\ (call'.ret # None) =>
              /\ call'.level \in {MODERATE, STRONG}
              /\ ~hist.sustained
              /\ call'.elapsed # None
              /\ call'.elapsed[1] >= sustain_seconds
        /\ (hist.sustained /\ call'.level \in {MODERATE, STRONG}) => call'.ret = None
      ]_vars

\* an episode with non-decreasing timestamps whose alert has been returned, and
\* a later sustained call of it, at the other level, that returned None
C1_Witness ==
    /\ Called /\ Elevated /\ Sustained
    /\ hist.alerts = 1
    /\ call.ret = None
    /\ call.before.alert_sent
    /\ call.level # call.before.last_level
    /\ call.timestamp > call.before.above_since[1]

\* C2: no alert is returned while timestamp - above_since < sustain_seconds.
\* With sustain_seconds = 30 and the score first elevated at t = 0: the calls at
\* t = 0 and t = 29 return None and leave above_since = 0; the call at t = 31
\* returns an alert with sustained_seconds = 31, of level MODERATE when the score
\* is below the strong threshold.
C2_NoAlertBeforeSustained ==
    Called =>
      /\ (call.ret # None) =>
            /\ call.before.above_since # None
            /\ call.timestamp - call.before.above_since[1] >= sustain_seconds
            /\ call.ret[1].sustained_seconds = call.timestamp - call.before.above_since[1]
      /\ (sustain_seconds = 30 /\ Elevated) =>
            /\ (call.before.above_since = None /\ call.timestamp = 0) =>
                  (call.ret = None /\ alert_state.above_since = Some(0))
            /\ (call.before.above_since = Some(0) /\ call.timestamp = 29) =>
                  (call.ret = None /\ alert_state.above_since = Some(0))
            /\ (call.before.above_since = Some(0) /\ ~call.before.alert_sent
                  /\ call.timestamp = 31) =>
                  /\ call.ret # None
                  /\ call.ret[1].sustained_seconds = 31
                  /\ (call.fused_score < call.threshold_strong
                        => call.ret[1].level = MODERATE)

\* the call at t = 31 of the scenario has returned its MODERATE alert
C2_Witness ==
    /\ Called
    /\ sustain_seconds = 30
    /\ call.before = [above_since |-> Some(0), alert_sent |-> FALSE, last_level |-> MODERATE]
    /\ call.timestamp = 31
    /\ call.fused_score < call.threshold_strong
    /\ call.ret # None
    /\ call.ret[1].level = MODERATE
    /\ call.ret[1].sustained_seconds = 31

C4_BelowModerateResets ==
    (Called /\ call.fused_score < call.threshold_moderate
            /\ call.fused_score < call.threshold_strong) =>
        /\ call.ret = None
        /\ alert_state = AlertState
        /\ (call.before = AlertState => alert_state = call.before)
        /\ hist.alerts = 0

\* a below-moderate call repeated on the state an earlier one reset after an alert
C4_Witness ==
    /\ Called
    /\ call.fused_score < call.threshold_moderate
    /\ call.fused_score < call.threshold_strong
    /\ call.before = AlertState
    /\ alert_state = AlertState
    /\ hist.total >= 1

\* C5: a call is classified STRONG when fused_score >= threshold_strong,
\* otherwise MODERATE when fused_score >= threshold_moderate, otherwise NORMAL;
\* a score equal to a threshold reaches it.
C5_Classification ==
    Called =>
      /\ (call.fused_score >= call.threshold_strong) => call.level = STRONG
      /\ (call.fused_score < call.threshold_strong
            /\ call.fused_score >= call.threshold_moderate) => call.level = MODERATE
      /\ (call.fused_score < call.threshold_strong
            /\ call.fused_score < call.threshold_moderate) => call.level = NORMAL
      /\ (call.level = NORMAL) => alert_state = AlertState
      /\ (call.ret # None) => call.ret[1].level = call.level
      /\ (call.level # NORMAL /\ call.before.above_since = None)
            => alert_state.last_level = call.level

\* a score equal to the moderate threshold, below the strong one, started an
\* episode at level MODERATE
C5_Witness ==
    /\ Called
    /\ call.fused_score = call.threshold_moderate
    /\ call.fused_score < call.threshold_strong
    /\ call.level = MODERATE
    /\ alert_state.last_level = MODERATE

----------------------------------------------------------------------------
(* Properties of the predictor *)

\* C6: every ThresholdSet predict_thresholds returns has
\* 0 <= score_moderate <= score_strong <= 100, also for negative predicted
\* baselines and for baselines above the reference ceilings.
C6_ThresholdsOrdered ==
    thresholds_call.op = "predict_thresholds" =>
        /\ 0 <= thresholds_call.ret.score_moderate
        /\ thresholds_call.ret.score_moderate <= thresholds_call.ret.score_strong
        /\ thresholds_call.ret.score_strong <= P(100)

\* a prediction above the ammonia ceiling and below zero for hydrogen sulfide:
\* the strong threshold is clamped, the moderate one is not
C6_Witness ==
    /\ thresholds_call.op = "predict_thresholds"
    /\ thresholds_call.baseline_nh3 > NH3_MAX
    /\ thresholds_call.baseline_h2s < 0
    /\ thresholds_call.ret.score_strong = P(100)
    /\ thresholds_call.ret.score_moderate = P(75)

\* C7 as stated: the thresholds are min(100, baseline_fused * 1.5) and
\* min(100, baseline_fused * 2.0), rounded to 2 decimals, of the baseline_fused
\* the same ThresholdSet returns (already rounded to 2 decimals).
C7_ThresholdsFromRoundedBaseline ==
    thresholds_call.op = "predict_thresholds" =>
        LET t == thresholds_call.ret
        IN  /\ t.score_moderate = round2(Min(P(100), times_1_5(t.baseline_fused)))
            /\ t.score_strong = round2(Min(P(100), times_2_0(t.baseline_fused)))
            /\ (t.baseline_fused = P(80) =>
                    (t.score_moderate = P(100) /\ t.score_strong = P(100)))

\* C7 amended: the thresholds are min(100, f * 1.5) and min(100, f * 2.0),
\* rounded to 2 decimals, of the fused baseline f before it is rounded,
\* f = 0.5 * normalize(baseline_nh3, 5.0) + 0.5 * normalize(baseline_h2s, 0.1);
\* the returned baseline_fused is f rounded to 2 decimals; for a fused baseline
\* of 80 both thresholds are 100.00.
C7_ThresholdsFromUnroundedBaseline ==
    thresholds_call.op = "predict_thresholds" =>
        LET t == thresholds_call.ret
            f == half(normalize(thresholds_call.baseline_nh3, NH3_MAX))
                 + half(normalize(thresholds_call.baseline_h2s, H2S_MAX))
        IN  /\ t.baseline_fused = round2(f)
            /\ t.score_moderate = round2(Min(P(100), times_1_5(f)))
            /\ t.score_strong = round2(Min(P(100), times_2_0(f)))
            /\ (f = P(80) => (t.score_moderate = P(100) /\ t.score_strong = P(100)))

\* a fused baseline with a third decimal (10.004): the thresholds 15.01 and
\* 20.01 are not those of the returned baseline_fused 10.00
C7_Witness ==
    /\ thresholds_call.op = "predict_thresholds"
    /\ thresholds_call.ret.baseline_fused = P(10)
    /\ thresholds_call.ret.score_moderate = P(15) + ONE \div 100
    /\ thresholds_call.ret.score_strong = P(20) + ONE \div 100

\* C8: for max_value > 0, normalize(value, max_value) is 0 for value <= 0, 100
\* for value >= max_value and (value / max_value) * 100 in between; it is within
\* [0, 100], non-decreasing in value, 0 at 0 and 100 at max_value.
\* (ret = (value / max_value) * 100 is stated as ret * max_value = value * 100,
\* both sides divided by 1000 to stay within 32 bits.)
C8_Normalize ==
    normalize_call.op = "normalize" =>
        LET c == normalize_call
        IN  /\ c.max_value > 0
            /\ (c.value <= 0) => c.ret = 0
            /\ (c.value >= c.max_value) => c.ret = P(100)
            /\ (0 < c.value /\ c.value < c.max_value) =>
                    c.ret * (c.max_value \div 1000) = c.value * (P(100) \div 1000)
            /\ 0 <= c.ret /\ c.ret <= P(100)
            /\ (c.value = 0) => c.ret = 0
            /\ (c.value = c.max_value) => c.ret = P(100)
            /\ (normalize_prev.op = "normalize"
                  /\ normalize_prev.max_value = c.max_value
                  /\ normalize_prev.value <= c.value) => normalize_prev.ret <= c.ret

\* two calls with the same ceiling: a value inside (0, max_value) and then a
\* value above the ceiling, clamped to 100
C8_Witness ==
    /\ normalize_call.op = "normalize"
    /\ normalize_prev.op = "normalize"
    /\ normalize_prev.max_value = normalize_call.max_value
    /\ 0 < normalize_prev.value
    /\ normalize_prev.value < normalize_prev.max_value
    /\ 0 < normalize_prev.ret
    /\ normalize_prev.ret < P(100)
    /\ normalize_call.value > normalize_call.max_value
    /\ normalize_call.ret = P(100)

\* C9: compute_fused_score(a, b) equals the baseline_fused predict_thresholds
\* returns when the model predicts (a, b): both are
\* 0.5 * normalize(a, 5.0) + 0.5 * normalize(b, 0.1) rounded to 2 decimals, a
\* value in [0, 100]; for a = 5.0 and b = 0.0 it is 50.00.
C9_SameFusion ==
    /\ score_call.op = "compute_fused_score" =>
          /\ score_call.ret = round2(half(normalize(score_call.ammonia_ppm, 5 * ONE))
                                     + half(normalize(score_call.h2s_ppm, ONE \div 10)))
          /\ 0 <= score_call.ret /\ score_call.ret <= P(100)
          /\ (score_call.ammonia_ppm = 5 * ONE /\ score_call.h2s_ppm = 0)
                => score_call.ret = P(50)
    /\ (score_call.op = "compute_fused_score"
          /\ thresholds_call.op = "predict_thresholds"
          /\ thresholds_call.baseline_nh3 = score_call.ammonia_ppm
          /\ thresholds_call.baseline_h2s = score_call.h2s_ppm)
          => thresholds_call.ret.baseline_fused = score_call.ret

\* both applied to the same pair, whose fusion (10.004) is changed by the
\* rounding (10.00)
C9_Witness ==
    /\ score_call.op = "compute_fused_score"
    /\ thresholds_call.op = "predict_thresholds"
    /\ thresholds_call.baseline_nh3 = score_call.ammonia_ppm
    /\ thresholds_call.baseline_h2s = score_call.h2s_ppm
    /\ score_call.ammonia_ppm = ONE + 4
    /\ score_call.h2s_ppm = 0
    /\ score_call.ret = P(10)

----------------------------------------------------------------------------
(* Properties of the notification service *)

SmsConfigured ==
    notification.sms_client /\ settings.twilio_phone /\ settings.alert_phone

EmailConfigured ==
    notification.sendgrid_client /\ settings.from_email /\ settings.alert_email

\* C10: send_sms and send_email never raise; each returns False without
\* attempting a send when its client or its addresses are not configured,
\* returns False when the transport call raises, and returns True only when the
\* transport call completed without an exception.
C10_SendsNeverRaise ==
    /\ sms_call.op = "send_sms" =>
          /\ ~sms_call.raised
          /\ ~SmsConfigured => (sms_call.ret = FALSE /\ ~sms_call.attempted)
          /\ SmsConfigured => sms_call.attempted
          /\ (sms_call.attempted /\ sms_call.transport = "raise") => sms_call.ret = FALSE
          /\ sms_call.ret = TRUE => (sms_call.attempted /\ sms_call.transport = "ok")
    /\ email_call.op = "send_email" =>
          /\ ~email_call.raised
          /\ ~EmailConfigured => (email_call.ret = FALSE /\ ~email_call.attempted)
          /\ EmailConfigured => email_call.attempted
          /\ (email_call.attempted /\ email_call.transport = "raise") => email_call.ret = FALSE
          /\ email_call.ret = TRUE => (email_call.attempted /\ email_call.transport = "ok")

\* the SMS transport raised and send_sms returned False; the email client is
\* configured without addresses and send_email returned False without a send
C10_Witness ==
    /\ sms_call.op = "send_sms"
    /\ sms_call.attempted
    /\ sms_call.transport = "raise"
    /\ sms_call.ret = FALSE
    /\ ~sms_call.raised
    /\ email_call.op = "send_email"
    /\ notification.sendgrid_client
    /\ ~settings.alert_email
    /\ email_call.ret = FALSE
    /\ ~email_call.attempted

----------------------------------------------------------------------------
(* The service: ESP32Service.evaluate_alert and the two POST handlers *)

\* the last evaluate_alert call returned a dict
Returned == eval.op = "evaluate_alert" /\ ~eval.raised /\ eval.result # None

\* C11: a failed dispatch neither aborts nor rolls back and is never retried.
\* When the state machine returned an alert and send_sms and send_email both
\* returned False, evaluate_alert still returns alert = True and alert_sent is
\* True; an episode never has a second alert, and the channels are tried only
\* in an evaluation whose state-machine call returned an alert.
C11_FailedDispatchKept ==
    /\ (eval.op = "evaluate_alert" /\ eval.alerted /\ ~eval.sms_sent /\ ~eval.email_sent)
           => (Returned /\ eval.result[1].alert /\ alert_state.alert_sent)
    /\ hist.alerts <= 1
    /\ eval.op = "evaluate_alert" => (eval.dispatched <=> eval.alerted)

\* both sends of the episode's one alert failed, and a later evaluation of the
\* same episode returned without an alert and without a send
C11_Witness ==
    /\ hist.total = 1 /\ hist.alerts = 1
    /\ sms_call.op = "send_sms" /\ ~sms_call.ret
    /\ email_call.op = "send_email" /\ ~email_call.ret
    /\ alert_state.alert_sent
    /\ Returned /\ eval.level # NORMAL /\ ~eval.alerted /\ ~eval.dispatched
    /\ ~eval.result[1].alert

\* C12: POST /readings never fails because of alert evaluation.  Every response
\* of create_reading after the insert is 201 with the inserted row, also when
\* evaluate_alert raised.
C12_CreateReadingAlwaysReturns ==
    response.handler = "create_reading"
        => /\ response.status = 201
           /\ response.reading_id \in 1..Len(readings)
           /\ response.reading_id \notin pending

\* a reading whose evaluation raises (the model cannot predict for it) was
\* posted and answered
C12_Witness ==
    /\ response.handler = "create_reading"
    /\ response.status = 201
    /\ readings[response.reading_id].prediction = None
    /\ thresholds_call.raised

----------------------------------------------------------------------------
(* The predictor's constructor *)

\* the constructor returned an instance whose model is None
ModelNone == predictor.instance # None /\ predictor.instance[1].model = None

\* C13 (as stated): the constructor raises when the artifact is missing or
\* cannot be read, no instance it returns has model = None, and on an instance
\* without a model predict_thresholds and compute_fused_score both raise.
C13_BothMethodsFailWithoutModel ==
    /\ predictor.artifact \in {"missing", "unreadable"}
           => (predictor.raised /\ predictor.instance = None)
    /\ ~ModelNone
    /\ ModelNone => /\ thresholds_call.op = "predict_thresholds" => thresholds_call.raised
                    /\ score_call.op = "compute_fused_score" => score_call.raised

\* C13 (amended): the constructor raises exactly when the artifact is missing
\* or cannot be read; the instance it returns has model = None exactly when the
\* artifact is the pickle of None; on such an instance predict_thresholds
\* raises, while compute_fused_score returns the fused score of its arguments
\* whatever the model is.
C13_OnlyPredictThresholdsNeedsModel ==
    /\ predictor.raised <=> predictor.artifact \in {"missing", "unreadable"}
    /\ predictor.raised <=> predictor.instance = None
    /\ ModelNone <=> predictor.artifact = "pickled None"
    /\ thresholds_call.op = "predict_thresholds" => (thresholds_call.raised <=> ModelNone)
    /\ score_call.op = "compute_fused_score"
           => /\ ~score_call.raised
              /\ score_call.ret = round2(half(normalize(score_call.ammonia_ppm, NH3_MAX))
                                         + half(normalize(score_call.h2s_ppm, H2S_MAX)))

\* on an instance without a model predict_thresholds raised and
\* compute_fused_score returned a score above 0
C13_Witness ==
    /\ ModelNone
    /\ thresholds_call.op = "predict_thresholds" /\ thresholds_call.raised
    /\ score_call.op = "compute_fused_score" /\ ~score_call.raised /\ score_call.ret > 0

----------------------------------------------------------------------------
(* The evaluation result *)

\* C14: the level in the dict evaluate_alert returns is the level the state
\* machine classified for the reading's fused score against the predicted
\* thresholds, and alert is true exactly when the state machine returned an
\* alert on this call.
C14_ResultLevelIsClassifiedLevel ==
    Returned => /\ eval.result[1].level = eval.level
                /\ eval.result[1].alert <=> eval.alerted

\* C15 (as stated): the timestamp handed to the state machine is the evaluated
\* reading's created_at, so a stored reading evaluated twice gives elapsed 0.
C15_TimestampIsCreatedAt ==
    /\ (eval.op = "evaluate_alert" /\ eval.checked) => eval.timestamp = eval.created_at
    /\ (Len(readings) = 1 /\ eval.elapsed # None) => eval.elapsed[1] = 0

\* C15 (amended): the timestamp handed to the state machine is what
\* datetime.now() returned during the evaluation, never earlier than the
\* reading's created_at, and elapsed is the time from the evaluation that
\* started the episode to this one.
C15_TimestampIsEvaluationTime ==
    (eval.op = "evaluate_alert" /\ eval.checked)
        => /\ eval.timestamp = eval.clock
           /\ eval.timestamp >= eval.created_at
           /\ eval.elapsed # None
                  => (alert_state.above_since # None
                      /\ eval.elapsed[1] = eval.timestamp - alert_state.above_since[1])

\* the only stored reading, created at 0, was evaluated at 0 and again at 30:
\* elapsed is 30
C15_Witness ==
    /\ Len(readings) = 1
    /\ eval.op = "evaluate_alert" /\ eval.checked
    /\ eval.created_at = 0 /\ eval.timestamp = 30
    /\ eval.elapsed = Some(30)

----------------------------------------------------------------------------
(* The state machine, continued *)

\* C16: check_sustained_alert never raises, whatever the score, the thresholds
\* and the timestamp; it returns None or an alert of level MODERATE or STRONG.
\* When threshold_moderate > threshold_strong every call is classified STRONG
\* (the score reaches threshold_strong) or NORMAL, never MODERATE.
C16_TotalOnInvertedThresholds ==
    Called
        => /\ ~call.raised
           /\ call.ret = None \/ call.ret[1].level \in {MODERATE, STRONG}
           /\ call.threshold_moderate > call.threshold_strong
                  => /\ call.level \in {NORMAL, STRONG}
                     /\ call.level = STRONG <=> call.fused_score >= call.threshold_strong
                     /\ call.ret # None => call.ret[1].level = STRONG

\* under inverted thresholds a score between the two was classified STRONG
\* and the call returned an alert
C16_Witness ==
    /\ Called
    /\ call.threshold_moderate > call.threshold_strong
    /\ call.fused_score < call.threshold_moderate
    /\ call.level = STRONG
    /\ call.ret # None

----------------------------------------------------------------------------
(* determine_department *)

\* keyword occurs in description, letters compared without regard to case
OccursIgnoringCase(keyword, description) ==
    \E i \in 1..(Len(description) - Len(keyword) + 1) :
        \A j \in 1..Len(keyword) : lower_char(description[i + j - 1]) = keyword[j]

\* C17: determine_department matches keywords case-insensitively as substrings
\* and applies the groups in fixed priority: wifi/internet/speed give
\* 'IT Department'; otherwise light/bulb/wire/switch give 'Electronics
\* Department'; otherwise chair/door/handle/table/desk/bench give 'Furniture
\* Department'; otherwise 'General Maintenance'.
C17_DepartmentByKeywordPriority ==
    department_call.op = "determine_department"
        => LET Has(keywords) ==
                   \E keyword \in keywords :
                       OccursIgnoringCase(keyword, department_call.description)
           IN  department_call.ret =
                   IF Has(it_keywords) THEN "IT Department"
                   ELSE IF Has(electronics_keywords) THEN "Electronics Department"
                   ELSE IF Has(furniture_keywords \ {<<"d", "o", "o", "r", " ", "h", "a", "n", "d", "l", "e">>})
                   THEN "Furniture Department"
                   ELSE "General Maintenance"

\* 'LIGHT', 'Wi' and 'fi' written one after the other: an upper-case keyword of
\* the second group and a keyword of the first group in mixed case
C17_Witness ==
    /\ department_call.op = "determine_department"
    /\ department_call.description = <<"L", "I", "G", "H", "T", "W", "i", "f", "i">>
    /\ department_call.ret = "IT Department"

\* C18: the first elevated call on a state whose above_since is unset only
\* starts the timer: it sets above_since to the timestamp and last_level to the
\* classified level, leaves alert_sent False and returns None, for every
\* sustain_seconds, 0 included; so a call that returns an alert found
\* above_since set by an earlier elevated call.
C18_FirstCrossingOnlyStartsTimer ==
    Called
        => /\ (Elevated /\ call.before.above_since = None)
                  => /\ alert_state.above_since = Some(call.timestamp)
                     /\ alert_state.last_level = call.level
                     /\ ~alert_state.alert_sent
                     /\ call.ret = None
           /\ call.ret # None => call.before.above_since # None

\* with a window of 0 seconds an elevated call on a fresh state returned None
C18_Witness ==
    /\ Called /\ Elevated
    /\ sustain_seconds = 0
    /\ call.before.above_since = None
    /\ call.ret = None
    /\ alert_state.above_since = Some(call.timestamp)

\* C19 (as stated): after every call classified MODERATE or STRONG last_level
\* is the level that call classified.
C19_LastLevelIsCurrentLevel ==
    (Called /\ Elevated) => alert_state.last_level = call.level

\* C19 (amended): last_level is written by the call that starts the episode
\* and by the call that returns the alert; every other elevated call leaves it
\* as it was, whatever level it classified.
C19_LastLevelSetAtCrossingAndAlert ==
    (Called /\ Elevated)
        => IF call.before.above_since = None \/ call.ret # None
           THEN alert_state.last_level = call.level
           ELSE alert_state.last_level = call.before.last_level

\* after the alert was sent at MODERATE a call classified STRONG returned None
\* and last_level is still MODERATE
C19_Witness ==
    /\ Called /\ call.level = STRONG
    /\ call.before.alert_sent
    /\ call.ret = None
    /\ alert_state.last_level = MODERATE

----------------------------------------------------------------------------
(* The state machine inside the service *)

\* C20: a call classified NORMAL is the only transition back to the initial
\* state.  In every step of the service in which above_since goes from set to
\* None or alert_sent from True to False, check_sustained_alert was called with
\* a fused_score below threshold_moderate and left the initial state; no
\* elevated call and no outcome of a notification clears them.
C20_OnlyNormalCallResets ==
    [][(\/ alert_state.above_since # None /\ alert_state'.above_since = None
        \/ alert_state.alert_sent /\ ~alert_state'.alert_sent)
           => /\ call'.op = "check_sustained_alert"
              /\ call'.before = alert_state
              /\ call'.level = NORMAL
              /\ call'.fused_score < call'.threshold_moderate
              /\ alert_state' = AlertState]_vars

\* the alert of an episode was dispatched and both sends failed; later a clean
\* reading reset the state
C20_Witness ==
    /\ Called /\ call.level = NORMAL
    /\ call.before.above_since # None /\ call.before.alert_sent
    /\ alert_state = AlertState
    /\ sms_call.op = "send_sms" /\ ~sms_call.ret
    /\ email_call.op = "send_email" /\ ~email_call.ret

----------------------------------------------------------------------------
(* The state machine: what remains reachable *)

\* the AlertState after one more call on the state st
StateAfter(st, fused_score, th, timestamp) ==
    check_sustained_alert([alert_state |-> st, sustain_seconds |-> sustain_seconds],
                          fused_score, th[1], th[2], timestamp).alert_state

\* one further call, not earlier than the last one, leaves the initial state
ReachesNormal ==
    \E fused_score \in Scores, th \in ThresholdPairs :
        StateAfter(alert_state, fused_score, th, call.timestamp) = AlertState

\* at most two further calls with non-decreasing timestamps, the second one
\* sustain_seconds after above_since, leave alert_sent True
ReachesAlerted ==
    \/ alert_state.alert_sent
    \/ \E first \in Scores, second \in Scores, th \in ThresholdPairs :
           LET pending_state == StateAfter(alert_state, first, th, call.timestamp)
           IN  /\ pending_state.above_since # None
               /\ StateAfter(pending_state, second, th,
                             IF pending_state.above_since[1] + sustain_seconds
                                    >= call.timestamp
                             THEN pending_state.above_since[1] + sustain_seconds
                             ELSE call.timestamp).alert_sent

\* C21: the machine has no terminal state.  From every reachable AlertState
\* (normal, pending or alerted) some further calls with non-decreasing
\* timestamps lead to the initial NORMAL state, and some lead to a state with
\* alert_sent = True.
C21_NoTerminalState == ReachesNormal /\ ReachesAlerted

\* an alerted state, from which a NORMAL call leads back to the initial state,
\* reached after an earlier reset
C21_Witness ==
    /\ Called
    /\ alert_state.alert_sent
    /\ hist.total = 2
    /\ ReachesNormal

----------------------------------------------------------------------------
(* Concurrent requests *)

\* C22: one evaluation is atomic with respect to other requests.  Every step
\* that evaluates or that changes the AlertState is one whole evaluate_alert
\* call: the state check_sustained_alert read is the state right before the
\* step, the state after the step is what the method made of it, and the
\* dispatch of the call's alert belongs to the same step; an evaluation that
\* raised before the state machine leaves the AlertState alone.
C22_EvaluationAtomic ==
    [][(eval' # eval \/ alert_state' # alert_state \/ call' # call)
           => /\ eval'.op = "evaluate_alert"
              /\ IF eval'.checked
                 THEN /\ call'.before = alert_state
                      /\ call'.timestamp = eval'.timestamp
                      /\ alert_state' = StateAfter(alert_state, call'.fused_score,
                                                   <<call'.threshold_moderate,
                                                     call'.threshold_strong>>,
                                                   call'.timestamp)
                      /\ eval'.alerted <=> call'.ret # None
                      /\ eval'.dispatched <=> eval'.alerted
                 ELSE /\ alert_state' = alert_state
                      /\ call' = call
                      /\ ~eval'.dispatched]_vars

\* an evaluation returned an alert and dispatched it while another POST
\* /readings request was suspended between its insert and its evaluation
C22_Witness ==
    /\ pending # {}
    /\ eval.op = "evaluate_alert" /\ eval.checked
    /\ eval.reading_id \notin pending
    /\ eval.alerted /\ eval.dispatched
    /\ alert_state.alert_sent

\* C23: under any interleaving of POST /readings and POST /alerts/evaluate
\* requests, with a clock that never goes backwards, the timestamps handed to
\* check_sustained_alert are non-decreasing in call order, and the elapsed the
\* method computes is never negative.
C23_TimestampsNonDecreasing ==
    [][call' # call
           => /\ call.op = "check_sustained_alert" => call'.timestamp >= call.timestamp
              /\ call'.elapsed # None => call'.elapsed[1] >= 0]_vars

\* the reading posted first (created at 0) was evaluated after the reading
\* posted second had started the episode at 30: elapsed is 0, not negative
C23_Witness ==
    /\ Len(readings) = 2
    /\ eval.op = "evaluate_alert" /\ eval.checked
    /\ eval.reading_id = 1 /\ eval.created_at = 0
    /\ alert_state.above_since = Some(30)
    /\ eval.elapsed = Some(0)

\* C24: exactly one alert-state record exists for the whole process.
\* get_alert_service constructs AlertService at most once, also when requests
\* resolve get_esp32_service concurrently, and every request evaluates on
\* that one AlertService.
C24_OneAlertService ==
    /\ Len(singleton.instances) <= 1
    /\ \A r \in 1..MaxRequests :
           singleton.requests[r].pc = "resolved" => singleton.requests[r].service = 1

----------------------------------------------------------------------------
(* The state machine: out-of-order timestamps, state invariants, alerts *)

\* C25: an elevated call whose timestamp is earlier than above_since (negative
\* elapsed), with sustain_seconds >= 0, returns None and leaves above_since,
\* alert_sent and last_level unchanged; it neither raises nor restarts the
\* timer.
C25_EarlierTimestampChangesNothing ==
    (/\ Called /\ Elevated
     /\ call.before.above_since # None
     /\ call.timestamp < call.before.above_since[1])
        => /\ call.ret = None
           /\ ~call.raised
           /\ call.elapsed = Some(call.timestamp - call.before.above_since[1])
           /\ alert_state = call.before

\* a pending episode whose timer started at 30 got an elevated call with
\* timestamp 0 under a window of 30 seconds
C25_Witness ==
    /\ Called /\ Elevated
    /\ sustain_seconds = 30
    /\ call.before.above_since = Some(30) /\ ~call.before.alert_sent
    /\ call.timestamp = 0
    /\ call.ret = None
    /\ alert_state.above_since = Some(30)

\* C26: every AlertState reachable by check_sustained_alert calls satisfies:
\* alert_sent = True implies above_since is set; above_since = None implies
\* alert_sent = False and last_level = NORMAL; above_since set implies
\* last_level is MODERATE or STRONG.
C26_AlertStateInvariant ==
    /\ alert_state.alert_sent => alert_state.above_since # None
    /\ alert_state.above_since = None
           => (~alert_state.alert_sent /\ alert_state.last_level = NORMAL)
    /\ alert_state.above_since # None => alert_state.last_level \in {MODERATE, STRONG}

\* an alerted state whose last_level is STRONG, and a state reset from an
\* alerted one, are both reachable: here the second
C26_Witness ==
    /\ Called
    /\ call.before.alert_sent /\ call.before.last_level = STRONG
    /\ alert_state.above_since = None
    /\ alert_state.last_level = NORMAL

\* C27: every alert check_sustained_alert returns has the level, MODERATE or
\* STRONG, that the returning call classified (not the level recorded at the
\* first crossing), the call's fused_score as score, a score that reaches the
\* call's threshold_moderate or threshold_strong, sustained_seconds >=
\* sustain_seconds, and the STRONG message exactly when the level is STRONG.
C27_AlertContent ==
    (Called /\ call.ret # None)
        => LET alert == call.ret[1]
           IN  /\ alert.level \in {MODERATE, STRONG}
               /\ alert.level = call.level
               /\ alert.level = STRONG <=> call.fused_score >= call.threshold_strong
               /\ alert.score = call.fused_score
               /\ \/ alert.score >= call.threshold_moderate
                  \/ alert.score >= call.threshold_strong
               /\ alert.sustained_seconds >= sustain_seconds
               /\ call.elapsed = Some(alert.sustained_seconds)
               /\ alert.message.score = call.fused_score
               /\ alert.message.template = "Level-3 STRONG" <=> alert.level = STRONG
               /\ alert.message.template = "Level-2 MODERATE" <=> alert.level = MODERATE

\* an episode that started at MODERATE returned its alert from a call
\* classified STRONG: the alert is STRONG
C27_Witness ==
    /\ Called /\ call.ret # None
    /\ call.before.last_level = MODERATE
    /\ call.ret[1].level = STRONG
    /\ call.ret[1].message.template = "Level-3 STRONG"

\* the latest evaluation ran on baselines that are both <= 0
ZeroBaselines ==
    /\ eval.op = "evaluate_alert" /\ eval.checked
    /\ thresholds_call.baseline_nh3 <= 0
    /\ thresholds_call.baseline_h2s <= 0

\* C28: when the predicted baselines are both <= 0, predict_thresholds returns
\* baseline_fused = score_moderate = score_strong = 0; the reading, whatever its
\* gas levels (a fused score of 0 included), is classified STRONG, the call
\* does not reset the state (above_since stays set, and stays what it was),
\* and a STRONG alert is returned once sustain_seconds have elapsed and no
\* alert was sent yet.
C28_ZeroThresholdsAlwaysStrong ==
    ZeroBaselines
        => /\ thresholds_call.ret = [baseline_fused |-> 0, score_moderate |-> 0,
                                     score_strong |-> 0]
           /\ call.threshold_moderate = 0 /\ call.threshold_strong = 0
           /\ call.level = STRONG
           /\ alert_state.above_since # None
           /\ call.before.above_since # None
                  => alert_state.above_since = call.before.above_since
           /\ (/\ call.before.above_since # None
               /\ call.timestamp - call.before.above_since[1] >= sustain_seconds
               /\ ~call.before.alert_sent)
                  => /\ call.ret # None
                     /\ call.ret[1].level = STRONG
                     /\ eval.result # None
                     /\ eval.result[1].alert
                     /\ eval.result[1].level = STRONG

\* a reading with 0 ppm of both gases, evaluated under zero thresholds
\* sustain_seconds after the first such evaluation, returned a STRONG alert
C28_Witness ==
    /\ ZeroBaselines
    /\ score_call.ammonia_ppm = 0 /\ score_call.h2s_ppm = 0
    /\ call.fused_score = 0
    /\ call.ret # None
    /\ call.ret[1].level = STRONG
    /\ call.ret[1].sustained_seconds >= sustain_seconds

\* C29: if from some call on every evaluation is classified MODERATE or STRONG,
\* and calls at least sustain_seconds after above_since keep being made, then
\* alert_sent eventually becomes TRUE and stays TRUE, whatever sustain_seconds.
C29_SustainedElevationAlerts ==
    <>[](Called /\ call.level # NORMAL) => <>[](alert_state.alert_sent)

\* an episode's alert was returned by a call made a whole window after the
\* episode began, later than every sampled instant
C29_Witness ==
    /\ Called /\ call.ret # None
    /\ sustain_seconds > 0
    /\ call.before.above_since # None
    /\ call.timestamp >= call.before.above_since[1] + sustain_seconds
    /\ call.timestamp \notin Timestamps
    /\ alert_state.alert_sent

\* C30: an evaluation whose check_sustained_alert returned an alert calls
\* send_sms once and then send_email once, whatever send_sms returned; an
\* evaluation without an alert calls neither; so the calls made on each
\* channel over a run number the alerts emitted.
C30_OneDispatchPerAlert ==
    /\ eval.op = "evaluate_alert"
           => /\ eval.alerted => eval.calls = <<"send_sms", "send_email">>
              /\ ~eval.alerted => eval.calls = <<>>
              /\ eval.alerted => sms_call.op = "send_sms" /\ email_call.op = "send_email"
    /\ eval.sms_calls = hist.total
    /\ eval.email_calls = hist.total

\* the second alert of a run: its SMS went out, and the e-mail was sent too
C30_Witness ==
    /\ eval.op = "evaluate_alert" /\ eval.alerted
    /\ eval.sms_sent /\ eval.email_sent
    /\ eval.calls = <<"send_sms", "send_email">>
    /\ hist.total = 2
    /\ eval.sms_calls = 2 /\ eval.email_calls = 2

====
